---- MODULE Spec2Model ----
(***************************************************************************)
(* The interceptor registry of aws-smithy-runtime-api (interceptors.rs):   *)
(* the two interceptor lists, registration, and the twenty dispatch entry  *)
(* points that interceptor_impl_fn! generates (specification Spec), and    *)
(* the driver of one execution that calls them in the order of the hook    *)
(* documentation and consults the retry strategy (specification            *)
(* SpecDriver).                                                            *)
(*                                                                         *)
(* An interceptor is named by the ticket it got when it was constructed    *)
(* (1, 2, ...): Box::new(interceptor) moves the instance into one list, so *)
(* an instance is registered once.  What the implementor's hook does when  *)
(* it is invoked is its kind for that call (see Kinds).                    *)
(***************************************************************************)
EXTENDS Integers, Sequences, FiniteSets, TLC

VARIABLES
    client_interceptors,     \* Interceptors.client_interceptors: Seq of tickets
    operation_interceptors,  \* Interceptors.operation_interceptors
    ctx,                     \* the caller's InterceptorContext
    cfg,                     \* the caller's ConfigBag: the set of markers in it
    pc,                      \* where the caller of the registry stands
    last,                    \* what the most recent dispatch call did
    running,                 \* the interceptors with a hook call in progress
    attempt,                 \* driver: the number of the current attempt
    loop_tx_request,         \* driver: tx_request as the retry loop got it
    gate,                    \* driver: verdict of should_attempt_initial_request
    retry_verdict,           \* driver: latest verdict of should_attempt_retry
    calls,                   \* driver: dispatches of each hook in this
                             \*   execution (attempt hooks: in this attempt)
    n_before_attempt,        \* driver: read_before_attempt dispatches so far
    n_true,                  \* driver: true verdicts of should_attempt_retry
    failed                   \* driver: some hook dispatch returned an error

\* The state of the driver of one execution.
drv == <<attempt, loop_tx_request, gate, retry_verdict, calls, n_before_attempt,
         n_true, failed>>

vars == <<client_interceptors, operation_interceptors, ctx, cfg, pc, last,
          running, drv>>

\* The number of interceptor instances that are ever constructed.
MaxInterceptors == 3

\* The number of attempts after which the retry strategy of the model stops
\* answering true.
MaxAttempts == 3

---------------------------------------------------------------------------
(* Hook names                                                              *)

\* The `mut context` arms of interceptor_impl_fn! (lines 604..620).
ModifyHooks ==
    { "modify_before_serialization", "modify_before_retry_loop",
      "modify_before_signing", "modify_before_transmit",
      "modify_before_deserialization", "modify_before_attempt_completion",
      "modify_before_completion" }

\* The `context` arms that keep the hook's own name (lines 605..621).
ReadHooks ==
    { "read_before_serialization", "read_after_serialization",
      "read_before_attempt", "read_before_signing", "read_after_signing",
      "read_before_transmit", "read_after_transmit",
      "read_before_deserialization", "read_after_deserialization",
      "read_after_attempt", "read_after_execution" }

\* The two entry points with an outer name of their own (lines 598..603).
BeforeExecutionEntries ==
    { "client_read_before_execution", "operation_read_before_execution" }

\* The twenty pub fns of impl Interceptors.
EntryPoints == BeforeExecutionEntries \cup ModifyHooks \cup ReadHooks

\* The nineteen methods of trait Interceptor (lines 38..528).
TraitHooks == {"read_before_execution"} \cup ModifyHooks \cup ReadHooks

\* $inner_name of an entry point: the trait method it calls.
InnerName(entry) ==
    IF entry \in BeforeExecutionEntries THEN "read_before_execution" ELSE entry

\* The context field a modify hook is documented to replace.
FieldOf(hook) ==
    CASE hook = "modify_before_serialization" -> "modeled_request"
      [] hook \in { "modify_before_retry_loop", "modify_before_signing",
                    "modify_before_transmit" } -> "tx_request"
      [] hook = "modify_before_deserialization" -> "tx_response"
      [] hook \in { "modify_before_attempt_completion",
                    "modify_before_completion" } -> "modeled_response"
      [] OTHER -> "modeled_request"

---------------------------------------------------------------------------
(* Values                                                                  *)

\* A value of a context field: its concrete type and its content.
Absent == [ty |-> "none", v |-> 0]
Value(ty, v) == [ty |-> ty, v |-> v]

\* InterceptorContext with all four fields populated.
FullContext ==
    [ modeled_request  |-> Value("Input", 0),
      tx_request       |-> Value("TxReq", 0),
      tx_response      |-> Value("TxRes", 0),
      modeled_response |-> Value("Output", 0) ]

\* InterceptorContext::new(request): only the modeled request is there.
NewContext ==
    [ modeled_request  |-> Value("Input", 0),
      tx_request       |-> Absent,
      tx_response      |-> Absent,
      modeled_response |-> Absent ]

\* The value an interceptor of kind "replace" wants in place of old (same
\* type), and the one an interceptor of kind "mistype" wants (another type).
Replacement(old) == Value(old.ty, old.v + 1)
Mistyped(old) == Value("Other", old.v + 1)

\* Result<(), InterceptorError>; an error carries the ticket that raised it.
Ok == [ok |-> TRUE, by |-> 0]
Err(i) == [ok |-> FALSE, by |-> i]

\* What an implementor's hook does in one call:
\*   ok       the default body: nothing, Ok(())
\*   err      returns Err
\*   put      inserts its marker into the ConfigBag, Ok(())
\*   replace  wants to replace the phase's field by a value of the same type
\*   mistype  wants to replace the phase's field by a value of another type
Kinds == { "ok", "err", "put", "replace", "mistype" }

\* The record of a dispatch call: the entry point, what every registered
\* interceptor's hook does in it, the bag the caller passed, the tickets
\* invoked in order, the value of the hook's field and the bag each of them
\* was shown, and the Result.
NoDispatch ==
    [ entry |-> "none", beh |-> <<>>, cfg_in |-> {}, invoked |-> <<>>,
      seen |-> <<>>, bags |-> <<>>, result |-> Ok ]

---------------------------------------------------------------------------
(* The Interceptor trait and the dispatch macro                            *)

\* One call of a trait method as if it were declared with
\* `context: &mut InterceptorContext`: an implementor that wants to replace
\* the hook's field does so.
\* HookCall as a trait whose default method bodies reported an error would
\* have it.
HookCallDefaultFails(i, kind, hook, context, bag) ==
    [ result |-> IF kind \in { "err", "ok" } THEN Err(i) ELSE Ok,
      cfg    |-> IF kind = "put" THEN bag \cup {i} ELSE bag,
      ctx    |-> context ]

HookCallMutable(i, kind, hook, context, bag) ==
    [ result |-> IF kind = "err" THEN Err(i) ELSE Ok,
      cfg    |-> IF kind = "put" THEN bag \cup {i} ELSE bag,
      ctx    |-> IF kind = "replace"
                 THEN [context EXCEPT ![FieldOf(hook)] = Replacement(@)]
                 ELSE context ]

\* One call of a trait method (interceptor_trait_fn!, lines 13..26, as
\* overridden by an implementor): it gets `context: &InterceptorContext`
\* and `cfg: &mut ConfigBag` and returns Result<(), InterceptorError>.  The
\* context is behind a shared reference and nothing but the Result comes
\* back, so whatever the implementor wants to replace, the context is after
\* the call what it was before; the bag and the Result are its outputs.
HookCall(i, kind, hook, context, bag) ==
    [ result |-> IF kind = "err" THEN Err(i) ELSE Ok,
      cfg    |-> IF kind = "put" THEN bag \cup {i} ELSE bag,
      ctx    |-> context ]

\* What the loop keeps of one call: st is [ctx, cfg, invoked, seen, bags,
\* result], r is what the call returned to interceptor i.
Invoked(st, i, hook, r, result) ==
    [ ctx     |-> r.ctx,
      cfg     |-> r.cfg,
      invoked |-> Append(st.invoked, i),
      seen    |-> Append(st.seen, st.ctx[FieldOf(hook)]),
      bags    |-> Append(st.bags, st.cfg),
      result  |-> result ]

\* RunHooks as a collect-then-jump loop would be: every interceptor of the
\* list is invoked whatever the earlier ones returned, the latest error wins.
RECURSIVE RunHooksCollect(_, _, _, _, _)
RunHooksCollect(list, k, beh, hook, st) ==
    IF k > Len(list) THEN st
    ELSE LET i == list[k]
             r == HookCall(i, beh[i], hook, st.ctx, st.cfg)
         IN  RunHooksCollect(list, k + 1, beh, hook,
                 Invoked(st, i, hook, r,
                         IF r.result.ok THEN st.result ELSE r.result))

\* RunHooks without the `?`: the Result of every call is dropped.
RECURSIVE RunHooksDropsResult(_, _, _, _, _)
RunHooksDropsResult(list, k, beh, hook, st) ==
    IF k > Len(list) THEN st
    ELSE LET i == list[k]
             r == HookCall(i, beh[i], hook, st.ctx, st.cfg)
         IN  RunHooksDropsResult(list, k + 1, beh, hook,
                 Invoked(st, i, hook, r, Ok))

\* RunHooks handing every interceptor a copy of the bag: what a hook puts
\* into it is lost after the call.
RECURSIVE RunHooksCopiesBag(_, _, _, _, _)
RunHooksCopiesBag(list, k, beh, hook, st) ==
    IF k > Len(list) THEN st
    ELSE LET i == list[k]
             r == HookCall(i, beh[i], hook, st.ctx, st.cfg)
             st1 == Invoked(st, i, hook, [r EXCEPT !.cfg = st.cfg], r.result)
         IN  IF r.result.ok THEN RunHooksCopiesBag(list, k + 1, beh, hook, st1)
             ELSE st1

\* The loop of interceptor_impl_fn! from position k of list on:
\*     for interceptor in self.client_interceptors.iter_mut() {
\*         interceptor.$inner_name(context, cfg)?;
\*     }
\*     Ok(())
RECURSIVE RunHooks(_, _, _, _, _)
RunHooks(list, k, beh, hook, st) ==
    IF k > Len(list) THEN st
    ELSE LET i == list[k]
             r == HookCall(i, beh[i], hook, st.ctx, st.cfg)
             st1 == Invoked(st, i, hook, r, r.result)
         IN  IF r.result.ok THEN RunHooks(list, k + 1, beh, hook, st1)
             ELSE st1      \* the `?`: return the error at once

\* The body both arms of interceptor_impl_fn! expand to (lines 551..574):
\* every entry point iterates self.client_interceptors.
interceptor_impl_fn(entry, context, bag, beh) ==
    RunHooks(client_interceptors, 1, beh, InnerName(entry),
             [ ctx |-> context, cfg |-> bag, invoked |-> <<>>, seen |-> <<>>,
               bags |-> <<>>, result |-> Ok ])

\* The record of a dispatch call that ended in st.
DispatchRecord(entry, beh, bag, st) ==
    [ entry |-> entry, beh |-> beh, cfg_in |-> bag, invoked |-> st.invoked,
      seen |-> st.seen, bags |-> st.bags, result |-> st.result ]

---------------------------------------------------------------------------
(* Actions of the registry and of a caller that makes single dispatches    *)

Registered == Len(client_interceptors) + Len(operation_interceptors)

\* Interceptors::new() / Default (lines 535..542, 578..580), with a caller
\* that holds a fully populated context and an empty bag.
Init ==
    /\ client_interceptors = <<>>
    /\ operation_interceptors = <<>>
    /\ ctx = FullContext
    /\ cfg = {}
    /\ pc = "setup"
    /\ last = NoDispatch
    /\ running = {}
    /\ attempt = 0
    /\ loop_tx_request = Absent
    /\ gate = "none"
    /\ calls = [h \in TraitHooks |-> 0]
    /\ n_before_attempt = 0
    /\ n_true = 0
    /\ retry_verdict = "none"
    /\ failed = FALSE

\* with_client_interceptor as an insert at the front would be.
with_client_interceptor_front ==
    /\ pc = "setup"
    /\ Registered < MaxInterceptors
    /\ client_interceptors' = <<Registered + 1>> \o client_interceptors
    /\ UNCHANGED <<running, operation_interceptors, ctx, cfg, pc, last, drv>>

\* with_client_interceptor (lines 582..588):
\*     self.client_interceptors.push(Box::new(interceptor));
with_client_interceptor ==
    /\ pc = "setup"
    /\ Registered < MaxInterceptors
    /\ client_interceptors' = Append(client_interceptors, Registered + 1)
    /\ UNCHANGED <<running, operation_interceptors, ctx, cfg, pc, last, drv>>

\* with_operation_interceptor (lines 590..596):
\*     self.operation_interceptors.push(Box::new(interceptor));
with_operation_interceptor ==
    /\ pc = "setup"
    /\ Registered < MaxInterceptors
    /\ operation_interceptors' = Append(operation_interceptors, Registered + 1)
    /\ UNCHANGED <<running, client_interceptors, ctx, cfg, pc, last, drv>>

\* Dispatch as a loop over client_interceptors.drain(..) would be: the
\* interceptors are taken out of the list as they are invoked.
DispatchConsumes(entry) ==
    /\ pc = "setup"
    /\ \E beh \in [1..Registered -> Kinds] :
         LET st == interceptor_impl_fn(entry, ctx, cfg, beh)
         IN  /\ cfg' = st.cfg
             /\ ctx' = st.ctx
             /\ last' = DispatchRecord(entry, beh, cfg, st)
             /\ client_interceptors' =
                   SubSeq(client_interceptors, Len(st.invoked) + 1,
                          Len(client_interceptors))
    /\ pc' = "returned"
    /\ UNCHANGED <<running, operation_interceptors, drv>>

\* One call of a dispatch entry point by the caller, with the behaviour of
\* every registered interceptor's hook in this call drawn from Kinds.
Dispatch(entry) ==
    /\ pc = "setup"
    /\ \E beh \in [1..Registered -> Kinds] :
         LET st == interceptor_impl_fn(entry, ctx, cfg, beh)
         IN  /\ cfg' = st.cfg
             /\ ctx' = st.ctx
             /\ last' = DispatchRecord(entry, beh, cfg, st)
    /\ pc' = "returned"
    /\ UNCHANGED <<running, client_interceptors, operation_interceptors, drv>>

\* The caller is done with the Result and takes a fresh context and a bag,
\* empty or with an entry (marker 0) that no interceptor made.
Finish ==
    /\ pc = "returned"
    /\ pc' = "setup"
    /\ ctx' = FullContext
    /\ cfg' \in { {}, {0} }
    /\ last' = NoDispatch
    /\ UNCHANGED <<running, client_interceptors, operation_interceptors, drv>>

Next ==
    \/ with_client_interceptor
    \/ with_operation_interceptor
    \/ \E entry \in EntryPoints : Dispatch(entry)
    \/ Finish

Spec == Init /\ [][Next]_vars

---------------------------------------------------------------------------
(* One dispatch call, hook call by hook call (specification SpecCalls):    *)
(* the loop of interceptor_impl_fn! with the call of a hook and its return *)
(* as steps of their own.  `last` is the record of the call as far as it   *)
(* has got.                                                                *)

\* What a hook does in the calls of this specification.
CallKinds == { "ok", "err", "put" }

\* pub fn $outer_name(&mut self, context, cfg) is entered (lines 552..556,
\* 564..568).
BeginDispatch(entry) ==
    /\ pc = "setup"
    /\ \E beh \in [1..Registered -> CallKinds] :
         last' = [ entry |-> entry, beh |-> beh, cfg_in |-> cfg,
                   invoked |-> <<>>, seen |-> <<>>, bags |-> <<>>,
                   result |-> Ok ]
    /\ pc' = "loop"
    /\ UNCHANGED <<running, client_interceptors, operation_interceptors, ctx,
                   cfg, drv>>

\* A loop that went on to the next interceptor while a hook call it made
\* has not returned.
MayCallWhileRunning == pc \in { "loop", "in_hook" }

\* The loop is at its head: the hook methods are plain `fn`s called with
\* `interceptor.$inner_name(context, cfg)?`, so the loop stands still until
\* the call has returned.
MayCall == pc = "loop"

\* `interceptor.$inner_name(context, cfg)` is called on the next element of
\* client_interceptors.iter_mut() (lines 557..558, 569..570).
CallHook ==
    /\ MayCall
    /\ last.result.ok
    /\ Len(last.invoked) < Len(client_interceptors)
    /\ LET i == client_interceptors[Len(last.invoked) + 1]
       IN  /\ running' = running \cup {i}
           /\ last' = [last EXCEPT
                         !.invoked = Append(@, i),
                         !.seen = Append(@, ctx[FieldOf(InnerName(last.entry))]),
                         !.bags = Append(@, cfg)]
    /\ pc' = "in_hook"
    /\ UNCHANGED <<client_interceptors, operation_interceptors, ctx, cfg, drv>>

\* A hook call returns: its Result is what the `?` looks at, and what it
\* did to the bag is in the caller's bag.
ReturnHook ==
    /\ pc = "in_hook"
    /\ \E i \in running :
         LET r == HookCall(i, last.beh[i], InnerName(last.entry), ctx, cfg)
         IN  /\ cfg' = r.cfg
             /\ ctx' = r.ctx
             /\ last' = [last EXCEPT !.result = r.result]
             /\ running' = running \ {i}
             /\ pc' = IF running \ {i} = {} THEN "loop" ELSE "in_hook"
    /\ UNCHANGED <<client_interceptors, operation_interceptors, drv>>

\* The `?` returns the error (lines 558, 570), or the loop is through and
\* `Ok(())` is returned (lines 560, 572).
ReturnDispatch ==
    /\ pc = "loop"
    /\ ~ last.result.ok \/ Len(last.invoked) = Len(client_interceptors)
    /\ pc' = "returned"
    /\ UNCHANGED <<running, client_interceptors, operation_interceptors, ctx,
                   cfg, last, drv>>

NextCalls ==
    \/ with_client_interceptor
    \/ with_operation_interceptor
    \/ \E entry \in EntryPoints : BeginDispatch(entry)
    \/ CallHook
    \/ ReturnHook
    \/ ReturnDispatch
    \/ Finish

SpecCalls == Init /\ [][NextCalls]_vars

---------------------------------------------------------------------------
(* The driver of one execution (specification SpecDriver).  The driver is  *)
(* not part of interceptors.rs: its steps follow the phase table and the   *)
(* jump rules of the hook documentation.  Every hook step calls the        *)
(* dispatch entry point of that name.                                      *)

\* The steps of one execution in the order of the phase table; serialize,
\* sign, transmit and deserialize are the driver's own work between hooks.
Lifecycle ==
    << "before_execution",
       "modify_before_serialization", "read_before_serialization",
       "serialize",
       "read_after_serialization", "modify_before_retry_loop",
       "should_attempt_initial_request",
       "read_before_attempt",
       "modify_before_signing", "read_before_signing",
       "sign",
       "read_after_signing",
       "modify_before_transmit", "read_before_transmit",
       "transmit",
       "read_after_transmit",
       "modify_before_deserialization", "read_before_deserialization",
       "deserialize",
       "read_after_deserialization",
       "modify_before_attempt_completion", "read_after_attempt",
       "should_attempt_retry",
       "modify_before_completion", "read_after_execution",
       "done" >>

Position(step) == CHOOSE k \in 1..Len(Lifecycle) : Lifecycle[k] = step

\* Succ as a driver that leaves out the signing phases would have it.
SuccSkipsSigning(step) ==
    IF step = "read_before_attempt" THEN "modify_before_transmit"
    ELSE Lifecycle[Position(step) + 1]

\* The step after a step that went well.
Succ(step) == Lifecycle[Position(step) + 1]

\* The hooks of the attempt sub-lifecycle, read_before_attempt through
\* read_after_attempt.
AttemptHooks ==
    { Lifecycle[k] : k \in Position("read_before_attempt")..Position("read_after_attempt") }
        \cap TraitHooks

\* The hook steps the driver takes with one dispatch call each.
DriverHookSteps == ModifyHooks \cup ReadHooks

\* Recover as a driver that gives up at the first error would have it.
RecoverAborts(step) == "done"

\* Recover as a driver that leaves a failed attempt without completing it
\* would have it.
RecoverSkipsAttemptCompletion(step) ==
    CASE Position(step) < Position("should_attempt_initial_request")
            -> "modify_before_completion"
      [] step \in AttemptHooks -> "should_attempt_retry"
      [] step = "modify_before_completion" -> "read_after_execution"
      [] OTHER -> "done"

\* Recover as a driver that goes on with the next phase after an error would
\* have it.
RecoverContinues(step) == Succ(step)

\* The step the driver jumps to when the dispatch of a hook returns an error.
Recover(step) ==
    CASE Position(step) < Position("should_attempt_initial_request")
            -> "modify_before_completion"
      [] step \in AttemptHooks
            \ { "modify_before_attempt_completion", "read_after_attempt" }
            -> "modify_before_attempt_completion"
      [] step = "modify_before_attempt_completion" -> "read_after_attempt"
      [] step = "read_after_attempt" -> "should_attempt_retry"
      [] step = "modify_before_completion" -> "read_after_execution"
      [] OTHER -> "done"

\* The step after should_attempt_initial_request, by its verdict.
AfterInitialVerdictSkipsGate(verdict) == "read_before_attempt"

AfterInitialVerdict(verdict) ==
    IF verdict = "proceed" THEN "read_before_attempt"
    ELSE "modify_before_completion"

\* The step after should_attempt_retry, by its verdict.
AfterRetryVerdictNeverLoops(verdict) == "modify_before_completion"

\* AfterRetryVerdict as a driver that takes an error of the strategy for a
\* reason to try again would have it.
AfterRetryVerdictRetriesOnError(verdict) ==
    IF verdict \in { "retry", "error" } THEN "read_before_attempt"
    ELSE "modify_before_completion"

AfterRetryVerdict(verdict) ==
    IF verdict = "retry" THEN "read_before_attempt"
    ELSE "modify_before_completion"

\* A context that goes into the next attempt as the last attempt left it.
CarriedAttemptContext(context, tx_request) ==
    [context EXCEPT !.modeled_response = Absent]

\* The context a fresh attempt starts with: the modeled request and the
\* transport request the retry loop was entered with; nothing of what the
\* last attempt made of the transport request, no response.
FreshAttemptContext(context, tx_request) ==
    [context EXCEPT !.tx_request = tx_request,
                    !.tx_response = Absent,
                    !.modeled_response = Absent]

\* What the hooks of an interceptor do in the calls the driver makes.
DriverKinds == { "ok", "err" }

\* The error an interceptor's hook raised, as a modeled response.
HookError(result) == Value("Error", result.by)
Rejection == Value("Rejected", 0)
RetryDecisionError == Value("RetryError", 0)

\* The entry of the bag that stands for the retry strategy: a marker that
\* is no interceptor's.
RetryStrategyMarker == MaxInterceptors + 1

\* RuntimePlugin::configure of GetObjectRetryStrategy (retry.rs, lines
\* 20..25):
\*     // TODO put a retry strategy in the bag
\*     Ok(())
configure(bag) == [ result |-> Ok, cfg |-> bag ]

\* The driver takes a new context and a new bag, has the retry strategy's
\* runtime plugin configure the bag, and starts an execution on the
\* registry as it stands.
StartExecution ==
    /\ pc = "setup"
    /\ pc' = "before_execution"
    /\ ctx' = NewContext
    /\ configure({}).result.ok
    /\ cfg' = configure({}).cfg
    /\ UNCHANGED <<running, client_interceptors, operation_interceptors, last, drv>>

\* before_execution: client_read_before_execution, then
\* operation_read_before_execution, both whatever the first returned; the
\* latest error is the one that is kept.
BeforeExecution ==
    /\ pc = "before_execution"
    /\ \E beh \in [1..Registered -> DriverKinds] :
         LET c == interceptor_impl_fn("client_read_before_execution", ctx, cfg, beh)
             o == interceptor_impl_fn("operation_read_before_execution", c.ctx, c.cfg, beh)
             result == IF o.result.ok THEN c.result ELSE o.result
         IN  /\ cfg' = o.cfg
             /\ last' = [ entry |-> "read_before_execution", beh |-> beh,
                          cfg_in |-> cfg,
                          invoked |-> c.invoked \o o.invoked,
                          seen |-> c.seen \o o.seen,
                          bags |-> c.bags \o o.bags, result |-> result ]
             /\ failed' = (failed \/ ~ result.ok)
             /\ IF result.ok
                THEN /\ pc' = Succ("before_execution")
                     /\ ctx' = o.ctx
                ELSE /\ pc' = Recover("before_execution")
                     /\ ctx' = [o.ctx EXCEPT !.modeled_response = HookError(result)]
    /\ calls' = [calls EXCEPT !["read_before_execution"] = @ + 1]
    /\ UNCHANGED <<running, client_interceptors, operation_interceptors, attempt,
                   loop_tx_request, gate, retry_verdict, n_before_attempt,
                   n_true>>

\* One hook step: the dispatch entry point of that name is called; an error
\* becomes the modeled response and the driver jumps to Recover(step).
HookStep(step) ==
    /\ pc = step
    /\ \E beh \in [1..Registered -> DriverKinds] :
         LET st == interceptor_impl_fn(step, ctx, cfg, beh)
         IN  /\ cfg' = st.cfg
             /\ last' = DispatchRecord(step, beh, cfg, st)
             /\ failed' = (failed \/ ~ st.result.ok)
             /\ IF st.result.ok
                THEN /\ pc' = Succ(step)
                     /\ ctx' = st.ctx
                ELSE /\ pc' = Recover(step)
                     /\ ctx' = [st.ctx EXCEPT !.modeled_response = HookError(st.result)]
    /\ calls' = [calls EXCEPT ![step] = @ + 1]
    /\ n_before_attempt' =
         IF step = "read_before_attempt" THEN n_before_attempt + 1
         ELSE n_before_attempt
    /\ loop_tx_request' =
         IF step = "modify_before_retry_loop" THEN ctx.tx_request
         ELSE loop_tx_request
    /\ UNCHANGED <<running, client_interceptors, operation_interceptors, attempt, gate,
                   retry_verdict, n_true>>

\* The driver's own work between hooks: it fills the field the next phase
\* is promised (signing rewrites the transport request).
OwnWork(step) ==
    /\ pc = step
    /\ step \in { "serialize", "sign", "transmit", "deserialize" }
    /\ ctx' =
         CASE step = "serialize" ->
                [ctx EXCEPT !.tx_request = Value("TxReq", 0)]
           [] step = "sign" ->
                [ctx EXCEPT !.tx_request = Value("TxReq", ctx.tx_request.v + 1)]
           [] step = "transmit" ->
                [ctx EXCEPT !.tx_response = Value("TxRes", 0)]
           [] step = "deserialize" ->
                [ctx EXCEPT !.modeled_response = Value("Output", 0)]
    /\ pc' = Succ(step)
    /\ UNCHANGED <<running, client_interceptors, operation_interceptors, cfg, last, drv>>

\* RetryStrategy::should_attempt_initial_request: the strategy lets the
\* first attempt start, rejects it, or fails itself.
ShouldAttemptInitialRequest ==
    /\ pc = "should_attempt_initial_request"
    /\ \E verdict \in { "proceed", "reject", "error" } :
         /\ gate' = verdict
         /\ pc' = AfterInitialVerdict(verdict)
         /\ attempt' = IF verdict = "proceed" THEN 1 ELSE attempt
         /\ ctx' = CASE verdict = "proceed" -> ctx
                     [] verdict = "reject" ->
                          [ctx EXCEPT !.modeled_response = Rejection]
                     [] verdict = "error" ->
                          [ctx EXCEPT !.modeled_response = RetryDecisionError]
    /\ UNCHANGED <<running, client_interceptors, operation_interceptors, cfg, last,
                   loop_tx_request, retry_verdict, calls, n_before_attempt,
                   n_true, failed>>

\* RetryStrategy::should_attempt_retry: true starts a fresh attempt on the
\* transport request the retry loop got, false ends the loop, an error of
\* the strategy itself ends the execution with that error.
ShouldAttemptRetry ==
    /\ pc = "should_attempt_retry"
    /\ \E verdict \in { "retry", "stop", "error" } :
         /\ verdict = "retry" => attempt < MaxAttempts
         /\ retry_verdict' = verdict
         /\ pc' = AfterRetryVerdict(verdict)
         /\ n_true' = IF verdict = "retry" THEN n_true + 1 ELSE n_true
         /\ attempt' = IF verdict = "retry" THEN attempt + 1 ELSE attempt
         /\ calls' = IF verdict = "retry"
                     THEN [h \in TraitHooks |->
                             IF h \in AttemptHooks THEN 0 ELSE calls[h]]
                     ELSE calls
         /\ ctx' = CASE verdict = "retry" -> FreshAttemptContext(ctx, loop_tx_request)
                     [] verdict = "stop" -> ctx
                     [] verdict = "error" ->
                          [ctx EXCEPT !.modeled_response = RetryDecisionError]
    /\ UNCHANGED <<running, client_interceptors, operation_interceptors, cfg, last,
                   loop_tx_request, gate, n_before_attempt, failed>>

NextDriver ==
    \/ with_client_interceptor
    \/ with_operation_interceptor
    \/ StartExecution
    \/ BeforeExecution
    \/ \E step \in DriverHookSteps : HookStep(step)
    \/ \E step \in { "serialize", "sign", "transmit", "deserialize" } : OwnWork(step)
    \/ ShouldAttemptInitialRequest
    \/ ShouldAttemptRetry

SpecDriver == Init /\ [][NextDriver]_vars

\* The steps of a started execution.
ExecutionStep ==
    \/ BeforeExecution
    \/ \E step \in DriverHookSteps : HookStep(step)
    \/ \E step \in { "serialize", "sign", "transmit", "deserialize" } : OwnWork(step)
    \/ ShouldAttemptInitialRequest
    \/ ShouldAttemptRetry

---------------------------------------------------------------------------
(* Properties of one dispatch call (specification Spec)                    *)

Range(s) == { s[k] : k \in 1..Len(s) }

\* The order the specification gives a dispatch: client-scoped interceptors,
\* then operation-scoped ones, each in registration order.
DispatchOrder == client_interceptors \o operation_interceptors

Dispatched == last.entry # "none"

NoneFails == \A i \in 1..Registered : last.beh[i] # "err"

\* The positions of client_interceptors whose hook is set to fail in the
\* most recent dispatch.
FailingClientPositions ==
    { k \in 1..Len(client_interceptors) :
        last.beh[client_interceptors[k]] = "err" }

Max(S) == CHOOSE m \in S : \A n \in S : n <= m

\* All client-scoped interceptors were invoked, and if some of them failed
\* the Result is the error of the last one that failed.
CollectedOverClients ==
    /\ last.invoked = client_interceptors
    /\ FailingClientPositions # {} =>
         last.result = Err(client_interceptors[Max(FailingClientPositions)])

\* The entry points the phase table makes fail-fast: all but
\* before_execution, before_attempt, after_attempt and after_execution.
FailFastEntries ==
    (ModifyHooks \cup ReadHooks)
        \ { "read_before_attempt", "read_after_attempt", "read_after_execution" }

\* C1: a dispatch of a hook in which no interceptor fails invokes the hook
\* on every client-scoped interceptor in registration order and then on
\* every operation-scoped interceptor in registration order.  (Stated for
\* the eighteen entry points that are not scoped to one list.)
C1_Ordering ==
    (Dispatched /\ last.entry \notin BeforeExecutionEntries /\ NoneFails)
        => last.invoked = DispatchOrder

\* C2: read_before_execution dispatched to three registered interceptors of
\* which the 1st and 3rd fail and the 2nd succeeds invokes all three, and the
\* Result of the dispatch is the 3rd interceptor's error.
C2_CollectBeforeExecution ==
    ( /\ last.entry = "client_read_before_execution"
      /\ Len(client_interceptors) = 3
      /\ last.beh[client_interceptors[1]] = "err"
      /\ last.beh[client_interceptors[2]] # "err"
      /\ last.beh[client_interceptors[3]] = "err" )
        => /\ last.invoked = client_interceptors
           /\ last.result = Err(client_interceptors[3])

\* C3: in a dispatch of a fail-fast hook (modify_before_signing and
\* read_before_signing among them) no interceptor that stands after a
\* failing one in the dispatch order is invoked.
C3_FailFast ==
    last.entry \in FailFastEntries =>
        \A j, k \in 1..Len(DispatchOrder) :
            (j < k /\ last.beh[DispatchOrder[j]] = "err")
                => DispatchOrder[k] \notin Range(last.invoked)

\* Three client interceptors, the 1st fails in modify_before_signing, and
\* only the 1st was invoked.
C3_Witness ==
    /\ last.entry = "modify_before_signing"
    /\ Len(client_interceptors) = 3
    /\ last.beh[client_interceptors[1]] = "err"
    /\ last.invoked = <<client_interceptors[1]>>
    /\ last.result = Err(client_interceptors[1])

\* C4: a dispatch of read_before_attempt or of read_after_attempt invokes
\* every registered (client-scoped) interceptor even when an earlier one
\* failed, and when several fail the one error that results is the last
\* one raised.
C4_CollectAttemptBoundary ==
    last.entry \in { "read_before_attempt", "read_after_attempt" }
        => CollectedOverClients

C6_SequentialFold ==
    \A k \in 1..Len(last.invoked) :
        (last.entry \in ModifyHooks /\ last.beh[last.invoked[k]] = "replace")
            => IF k < Len(last.invoked)
               THEN last.seen[k + 1] = Replacement(last.seen[k])
               ELSE ctx[FieldOf(last.entry)] = Replacement(last.seen[k])

\* C7: a dispatch of read_after_execution invokes every registered
\* (client-scoped) interceptor even when an earlier one failed, and if
\* several fail the latest error is the outcome.
C7_CollectAfterExecution ==
    last.entry = "read_after_execution" => CollectedOverClients

---------------------------------------------------------------------------
(* Properties of one execution (specification SpecDriver)                  *)

\* How often ticket i occurs in a sequence of tickets.
Count(i, seq) == Cardinality({ k \in 1..Len(seq) : seq[k] = i })

CompletionSteps == { "modify_before_completion", "read_after_execution", "done" }

\* C8: when the driver has run client_read_before_execution followed by
\* operation_read_before_execution (and no hook failed), every registered
\* interceptor, client-scoped or operation-scoped, has had its
\* read_before_execution invoked exactly once.
C8_BeforeExecutionOnce ==
    (last.entry = "read_before_execution" /\ NoneFails)
        => \A i \in 1..Registered : Count(i, last.invoked) = 1

\* C9: once should_attempt_initial_request has reported rejection, no hook
\* of the attempt phase is invoked in the execution; the driver goes on with
\* modify_before_completion and read_after_execution, each once, and the
\* rejection is the modeled response they are dispatched with.
C9_RetryGating ==
    gate = "reject" =>
        /\ attempt = 0
        /\ n_before_attempt = 0
        /\ \A h \in AttemptHooks : calls[h] = 0
        /\ pc \in CompletionSteps
        /\ pc = "modify_before_completion" =>
             /\ ctx.modeled_response = Rejection
             /\ calls["modify_before_completion"] = 0
        /\ (pc = "read_after_execution" /\ last.result.ok) =>
             ctx.modeled_response = Rejection
        /\ pc = "done" =>
             /\ calls["modify_before_completion"] = 1
             /\ calls["read_after_execution"] = 1

\* A rejected execution of a registry with a client interceptor has run to
\* its end and the rejection is its modeled response.
C9_Witness ==
    /\ gate = "reject"
    /\ pc = "done"
    /\ Len(client_interceptors) > 0
    /\ ctx.modeled_response = Rejection

\* C10: in an execution that entered the retry loop and in which no hook
\* failed, the number of read_before_attempt dispatches at the end of the
\* loop is one more than the number of true verdicts of should_attempt_retry
\* (three dispatches for two true verdicts).
C10_RetryLoop ==
    (pc \in CompletionSteps /\ gate = "proceed" /\ ~ failed)
        => n_before_attempt = n_true + 1

\* should_attempt_retry said true twice and then false, no hook failed, and
\* read_before_attempt was dispatched three times.
C10_Witness ==
    /\ pc = "done"
    /\ gate = "proceed"
    /\ ~ failed
    /\ Len(client_interceptors) > 0
    /\ n_true = 2
    /\ n_before_attempt = 3

\* The steps a started execution has left at most: the steps of this attempt
\* and all the steps of the attempts the strategy may still ask for.
StepsLeft ==
    (MaxAttempts - attempt) * Len(Lifecycle) + (Len(Lifecycle) - Position(pc))

Started == pc \notin { "setup", "returned" }

\* The guards of the steps of ExecutionStep: each step asks for its place in
\* the lifecycle and nothing else (the hooks' behaviours and the verdicts
\* are drawn from sets that are never empty; "stop" is always a verdict).
CanStep ==
    \/ pc = "before_execution"
    \/ pc \in DriverHookSteps
    \/ pc \in { "serialize", "sign", "transmit", "deserialize" }
    \/ pc \in { "should_attempt_initial_request", "should_attempt_retry" }

\* C11: every started execution comes to dispatch read_after_execution,
\* once (an execution that is not done can take a step, and every step
\* brings it nearer to its end, for a strategy that asks for at most
\* MaxAttempts attempts); when read_after_execution is dispatched the
\* modeled request and the modeled response are both populated, wherever the
\* execution failed before.
C11_TerminalVisibility ==
    /\ [](pc = "read_after_execution" =>
            /\ ctx.modeled_request # Absent
            /\ ctx.modeled_response # Absent
            /\ calls["read_after_execution"] = 0)
    /\ [](pc = "done" => calls["read_after_execution"] = 1)
    /\ []((Started /\ pc # "done") => CanStep)
    /\ [][(Started /\ pc' # pc) => (StepsLeft' < StepsLeft /\ StepsLeft' >= 0)]_vars

\* An execution that failed in before_execution, before anything else was
\* there, has dispatched read_after_execution once with both fields set.
C11_Witness ==
    /\ pc = "done"
    /\ gate = "none"
    /\ calls["modify_before_serialization"] = 0
    /\ calls["read_after_execution"] = 1
    /\ last.entry = "read_after_execution"
    /\ Len(last.invoked) > 0
    /\ ctx.modeled_request # Absent
    /\ ctx.modeled_response # Absent

AttemptEnded ==
    attempt >= 1 /\ pc \in { "should_attempt_retry" } \cup CompletionSteps

PreLoopOrder ==
    << "read_before_execution", "modify_before_serialization",
       "read_before_serialization", "read_after_serialization",
       "modify_before_retry_loop" >>

\* C14: when the dispatch of a hook before the retry loop returns an error,
\* the error is the modeled response, no later hook before the loop and no
\* hook of an attempt is dispatched, and modify_before_completion is the
\* next dispatch.
C14_PreLoopFailureJump ==
    \A k \in 1..Len(PreLoopOrder) :
        (last.entry = PreLoopOrder[k] /\ ~ last.result.ok)
            => /\ pc = "modify_before_completion"
               /\ calls["modify_before_completion"] = 0
               /\ ctx.modeled_response = HookError(last.result)
               /\ gate = "none"
               /\ attempt = 0
               /\ \A j \in (k + 1)..Len(PreLoopOrder) : calls[PreLoopOrder[j]] = 0
               /\ \A h \in AttemptHooks : calls[h] = 0

\* read_before_serialization failed, and the driver stands before
\* modify_before_completion with the error as the modeled response.
C14_Witness ==
    /\ last.entry = "read_before_serialization"
    /\ ~ last.result.ok
    /\ pc = "modify_before_completion"
    /\ calls["modify_before_serialization"] = 1
    /\ calls["read_after_serialization"] = 0
    /\ ctx.modeled_response = HookError(last.result)

\* The call of the retry strategy itself returned an error.
StrategyFailed == gate = "error" \/ retry_verdict = "error"

\* C15: when should_attempt_initial_request or should_attempt_retry itself
\* returns an error, the execution goes to its completion hooks, no
\* further attempt is started, and that error is the modeled response the
\* completion hooks get and the execution ends with (unless
\* modify_before_completion failed and its error took the place).
C15_RetryDecisionErrorAborts ==
    StrategyFailed =>
        /\ pc \in CompletionSteps
        /\ n_before_attempt = attempt
        /\ gate = "error" => attempt = 0
        /\ calls["modify_before_completion"] = 0
             => ctx.modeled_response = RetryDecisionError
        /\ \/ ctx.modeled_response = RetryDecisionError
           \/ /\ ctx.modeled_response.ty = "Error"
              /\ last.entry \in { "modify_before_completion", "read_after_execution" }

\* The strategy failed when it was asked after the second attempt; the
\* execution ended with that error and no third attempt.
C15_Witness ==
    /\ retry_verdict = "error"
    /\ pc = "done"
    /\ attempt = 2
    /\ n_before_attempt = 2
    /\ ctx.modeled_response = RetryDecisionError

\* The hooks in the order of the phase table.
PhaseOrder ==
    << "read_before_execution",
       "modify_before_serialization", "read_before_serialization",
       "read_after_serialization",
       "modify_before_retry_loop",
       "read_before_attempt",
       "modify_before_signing", "read_before_signing", "read_after_signing",
       "modify_before_transmit", "read_before_transmit", "read_after_transmit",
       "modify_before_deserialization", "read_before_deserialization",
       "read_after_deserialization",
       "modify_before_attempt_completion", "read_after_attempt",
       "modify_before_completion", "read_after_execution" >>

Phase(hook) == CHOOSE k \in 1..Len(PhaseOrder) : PhaseOrder[k] = hook

\* The hook `hook` may be dispatched next after the hook `prev`, whose
\* dispatch returned success iff `ok`: it is the next of the table, or the
\* target of the jump defined for a failure of `prev`, or of the jump
\* defined for the verdict of the retry strategy.
LegalNext(prev, ok, hook) ==
    CASE prev = "none" -> hook = "read_before_execution"
      [] prev = "modify_before_retry_loop" /\ ok ->
            \/ gate = "proceed" /\ hook = "read_before_attempt"
            \/ gate \in { "reject", "error" } /\ hook = "modify_before_completion"
      [] prev = "read_after_attempt" ->
            \/ retry_verdict = "retry" /\ hook = "read_before_attempt"
            \/ retry_verdict \in { "stop", "error" }
                  /\ hook = "modify_before_completion"
      [] prev \in { "modify_before_attempt_completion", "modify_before_completion" } ->
            hook = PhaseOrder[Phase(prev) + 1]
      [] prev = "read_after_execution" -> FALSE
      [] OTHER ->
            IF ok THEN hook = PhaseOrder[Phase(prev) + 1]
            ELSE IF Phase(prev) <= Phase("modify_before_retry_loop")
                 THEN hook = "modify_before_completion"
                 ELSE hook = "modify_before_attempt_completion"

---------------------------------------------------------------------------
(* Further properties of one dispatch call (specification Spec)            *)

\* C17: a dispatch of a fail-fast hook returns Ok if and only if every
\* interceptor it invoked returned Ok (over an empty registry it returns
\* Ok), and when it fails the error it returns is the error of the first
\* interceptor in the dispatch order whose hook fails.
C17_FailFastResult ==
    last.entry \in FailFastEntries =>
        /\ last.result.ok <=>
             \A k \in 1..Len(last.invoked) : last.beh[last.invoked[k]] # "err"
        /\ Registered = 0 => last.result.ok
        /\ ~ last.result.ok =>
             \E k \in 1..Len(DispatchOrder) :
                /\ last.beh[DispatchOrder[k]] = "err"
                /\ \A j \in 1..(k - 1) : last.beh[DispatchOrder[j]] # "err"
                /\ last.result = Err(DispatchOrder[k])

\* read_before_signing over three client interceptors of which the 2nd and
\* the 3rd fail: the dispatch returned the 2nd's error.
C17_Witness ==
    /\ last.entry = "read_before_signing"
    /\ Len(client_interceptors) = 3
    /\ last.beh[client_interceptors[1]] # "err"
    /\ last.beh[client_interceptors[2]] = "err"
    /\ last.beh[client_interceptors[3]] = "err"
    /\ last.result = Err(client_interceptors[2])

\* C18: client_read_before_execution invokes read_before_execution on the
\* client-scoped interceptors only, and operation_read_before_execution on
\* the operation-scoped interceptors only (on all of them, in registration
\* order, when none fails).
C18_ScopedBeforeExecution ==
    /\ last.entry = "client_read_before_execution" =>
         /\ Range(last.invoked) \subseteq Range(client_interceptors)
         /\ NoneFails => last.invoked = client_interceptors
    /\ last.entry = "operation_read_before_execution" =>
         /\ Range(last.invoked) \subseteq Range(operation_interceptors)
         /\ NoneFails => last.invoked = operation_interceptors

\* The markers the interceptors invoked before the k-th one of the most
\* recent dispatch put into the bag.
PutsBefore(k) ==
    { last.invoked[j] :
        j \in { j \in 1..(k - 1) : last.beh[last.invoked[j]] = "put" } }

\* C19: in a dispatch, the bag an interceptor is handed is the bag the
\* caller passed with what the interceptors invoked before it put into it,
\* and the bag the caller has after the dispatch is the bag it passed with
\* what all the invoked interceptors put into it, also when the dispatch
\* failed; nothing else is added to or taken from the bag.
C19_BagFold ==
    Dispatched =>
        /\ \A k \in 1..Len(last.invoked) :
              last.bags[k] = last.cfg_in \cup PutsBefore(k)
        /\ cfg = last.cfg_in \cup PutsBefore(Len(last.invoked) + 1)

\* Three client interceptors: the 1st and 2nd put a marker into a bag that
\* held one, the 3rd fails; the 3rd was handed both markers and they are in
\* the bag after the failed dispatch.
C19_Witness ==
    /\ Len(client_interceptors) = 3
    /\ last.invoked = client_interceptors
    /\ last.beh[client_interceptors[1]] = "put"
    /\ last.beh[client_interceptors[2]] = "put"
    /\ last.beh[client_interceptors[3]] = "err"
    /\ ~ last.result.ok
    /\ last.cfg_in = {0}
    /\ last.bags[3] = {0, client_interceptors[1], client_interceptors[2]}
    /\ cfg = {0, client_interceptors[1], client_interceptors[2]}

\* The entry points that dispatch a read hook.
ReadEntries == ReadHooks \cup BeforeExecutionEntries

\* C20: a dispatch of a read hook leaves the four fields of the context as
\* they were, whether it returns Ok or an error, and every interceptor it
\* invokes is shown the field as it was before the dispatch.
C20_ReadHooksFrame ==
    [][(pc = "setup" /\ pc' = "returned" /\ last'.entry \in ReadEntries)
          => /\ ctx' = ctx
             /\ \A k \in 1..Len(last'.seen) :
                   last'.seen[k] = ctx[FieldOf(InnerName(last'.entry))]]_vars

\* A failed dispatch of a read hook in which an invoked interceptor meant
\* to replace a field: the context is as it was constructed.
C20_Witness ==
    /\ pc = "returned"
    /\ last.entry \in ReadHooks
    /\ ~ last.result.ok
    /\ Len(last.invoked) = 2
    /\ last.beh[last.invoked[1]] = "replace"
    /\ ctx = FullContext

\* new is old with one element, not in old, added at its end.
AppendedTo(old, new) ==
    /\ Len(new) = Len(old) + 1
    /\ SubSeq(new, 1, Len(old)) = old
    /\ new[Len(new)] \notin Range(old)

\* C21: a step that changes the client-scoped list is a registration that
\* puts one new interceptor at its end, keeps the interceptors that were
\* in it in their order and leaves the operation-scoped list as it was;
\* and the same with the two lists exchanged.
C21_RegistrationAppends ==
    [][/\ client_interceptors' # client_interceptors =>
            /\ AppendedTo(client_interceptors, client_interceptors')
            /\ operation_interceptors' = operation_interceptors
       /\ operation_interceptors' # operation_interceptors =>
            /\ AppendedTo(operation_interceptors, operation_interceptors')
            /\ client_interceptors' = client_interceptors]_vars

\* A client, an operation and again a client interceptor were registered:
\* the second client interceptor stands after the first.
C21_Witness ==
    /\ client_interceptors = <<1, 3>>
    /\ operation_interceptors = <<2>>

\* old is the beginning of new.
IsPrefix(old, new) ==
    /\ Len(old) <= Len(new)
    /\ SubSeq(new, 1, Len(old)) = old

\* C22: a new registry has both lists empty; a dispatch call, whether it
\* returns Ok or an error, leaves both lists as they were; and no step
\* ever takes an interceptor out of a list or moves it.
C22_RegistryStability ==
    /\ (client_interceptors = <<>> /\ operation_interceptors = <<>>)
    /\ [][/\ (pc = "setup" /\ pc' = "returned") =>
               /\ client_interceptors' = client_interceptors
               /\ operation_interceptors' = operation_interceptors
          /\ IsPrefix(client_interceptors, client_interceptors')
          /\ IsPrefix(operation_interceptors, operation_interceptors')]_vars

\* A dispatch over two client interceptors and one operation interceptor
\* failed at the first, and the lists are as they were registered.
C22_Witness ==
    /\ pc = "returned"
    /\ ~ last.result.ok
    /\ last.invoked = <<1>>
    /\ client_interceptors = <<1, 2>>
    /\ operation_interceptors = <<3>>

\* The kind of a hook that is not overridden: the body interceptor_trait_fn!
\* gives every method, `let _ctx = context; let _cfg = cfg; Ok(())`.
DefaultHook == "ok"

\* C23: a dispatch in which every registered interceptor's hook is the
\* default one returns Ok, invokes every client-scoped interceptor, hands
\* each of them the bag the caller passed, and leaves the context and the
\* bag as they were.
C23_DefaultHooksNoOp ==
    [][( /\ pc = "setup"
         /\ pc' = "returned"
         /\ \A i \in 1..Registered : last'.beh[i] = DefaultHook )
          => /\ last'.result = Ok
             /\ last'.invoked = client_interceptors
             /\ \A k \in 1..Len(last'.bags) : last'.bags[k] = cfg
             /\ ctx' = ctx
             /\ cfg' = cfg]_vars

\* modify_before_signing dispatched to three client interceptors with
\* default hooks, on a bag that held an entry.
C23_Witness ==
    /\ pc = "returned"
    /\ last.entry = "modify_before_signing"
    /\ Len(client_interceptors) = 3
    /\ \A i \in 1..Registered : last.beh[i] = DefaultHook
    /\ last.invoked = client_interceptors
    /\ last.result = Ok
    /\ last.cfg_in = {0}
    /\ cfg = {0}
    /\ ctx = FullContext

\* C24: once the retry strategy's configure has returned Ok on the bag of
\* an execution, the retry strategy is in that bag, at the retry decision
\* points as everywhere else in the execution.
C24_StrategyInBag ==
    Started => RetryStrategyMarker \in cfg

---------------------------------------------------------------------------
(* Properties of the hook calls of a dispatch (specification SpecCalls)    *)

\* C25: at any moment at most one hook call is in progress, and it is the
\* call of the interceptor the loop invoked last; the bag changes during a
\* dispatch only when that one call returns, by what that interceptor put
\* into it; and the dispatch returns what the calls made one after another
\* give.
C25_StrictSequencing ==
    /\ [](Cardinality(running) <= 1)
    /\ [](running # {} =>
            /\ pc = "in_hook"
            /\ running = { last.invoked[Len(last.invoked)] })
    /\ [](pc = "returned" =>
            LET st == interceptor_impl_fn(last.entry, ctx, last.cfg_in, last.beh)
            IN  /\ last = DispatchRecord(last.entry, last.beh, last.cfg_in, st)
                /\ cfg = st.cfg)
    /\ [][(cfg' # cfg /\ pc # "returned") =>
             \E i \in running :
                /\ running = {i}
                /\ running' = {}
                /\ cfg' = cfg \cup {i}]_vars

\* The hook of the 2nd of three client interceptors is being called, after
\* the call of the 1st has returned and left its entry in the bag.
C25_Witness ==
    /\ pc = "in_hook"
    /\ Len(client_interceptors) = 3
    /\ running = { client_interceptors[2] }
    /\ last.beh[client_interceptors[1]] = "put"
    /\ last.beh[client_interceptors[2]] = "put"
    /\ cfg = { client_interceptors[1] }

====
